---------------------------- MODULE Spec2Model ----------------------------
(***************************************************************************)
(* Model of stylelint's problem reporting and fix application:             *)
(*   lib/utils/report.mjs   report(), and its local applyFix()             *)
(*   lib/utils/fix.mjs      applyFix(), addFixerData()                     *)
(*   unnamed/part_000       applyFixes(), offsetDisabledRanges()           *)
(*                                                                         *)
(* JavaScript values are encoded as follows.                               *)
(*   - an optional number or object is a sequence of length <= 1:          *)
(*     <<>> is undefined, <<v>> is the value v;                            *)
(*   - problem.line is a number, 0 being the falsy "no line";              *)
(*   - a severity is a string, "" being undefined (falsy);                 *)
(*   - an object used as a map (disabledRanges) is a function whose        *)
(*     DOMAIN is the set of keys present; fixersData, whose key order      *)
(*     Object.entries() exposes, is a sequence of [rule, list] pairs in    *)
(*     insertion order.                                                    *)
(***************************************************************************)
EXTENDS Integers, Sequences, FiniteSets, TLC

VARIABLES
    config,            \* result.stylelint.config
    quiet,             \* result.stylelint.quiet
    ruleSeverities,    \* result.stylelint.ruleSeverities
    disabledRanges,    \* result.stylelint.disabledRanges
    disabledWarnings,  \* result.stylelint.disabledWarnings
    stylelintError,    \* result.stylelint.stylelintError
    stylelintWarning,  \* result.stylelint.stylelintWarning
    fixersData,        \* result.stylelint.fixersData
    warnings,          \* what result.warn() has received, in order
    executed,          \* the fix callbacks that have run, in order
    phase,             \* "report", "fix", "done" or "failed"
    error,             \* the error the last call threw ("" when none)
    call,              \* the last call made and its argument
    reported,          \* the problems report() was called with, in order
    cursor             \* applyFixes' position: its loops' indices and locals

vars == << config, quiet, ruleSeverities, disabledRanges, disabledWarnings,
           stylelintError, stylelintWarning, fixersData, warnings, executed,
           phase, error, call, reported, cursor >>

-----------------------------------------------------------------------------
(* Bounds *)

MaxLine == 2       \* lines of the document that ranges and problems name
MaxRanges == 1     \* disabled ranges in a range index
MaxReports == 2    \* report() calls of a session
MaxFixes == 2      \* fixes registered in a session
MaxDelta == 2      \* lines a fix adds or removes

-----------------------------------------------------------------------------
(* Values *)

RULE_NAME_ALL == "all"
Rules == {"foo", "bar"}
Lines == 1..MaxLine

None == << >>
Some(v) == << v >>

Severities == {"error", "warning"}

Undefined == [kind |-> "undefined", value |-> ""]
Literal(s) == [kind |-> "literal", value |-> s]
Function(f) == [kind |-> "function", value |-> f]

\* The severity functions a configuration or a rule may supply: one returns
\* its first argument (undefined without arguments), one tells whether it got
\* any argument.
SeverityFunctions == {"firstArg", "byArity"}

CallSeverityFunction(f, args) ==
    IF f = "firstArg"
    THEN IF Len(args) > 0 THEN args[1] ELSE ""
    ELSE IF Len(args) = 0 THEN "warning" ELSE "error"

SeverityOptions ==
    {Undefined} \cup {Literal(s) : s \in Severities}
                \cup {Function(f) : f \in SeverityFunctions}

MessageArgs == {None, Some(<< >>), Some(<<"warning">>), Some(<<"error">>)}

Position(l, c) == [line |-> l, column |-> c]

\* node.rangeBy({index, endIndex}): the document's range lookup.  A node is
\* modelled by the line it starts on and an index by the number of lines it
\* lies below the node's start; without an index the node's start is used,
\* without an endIndex the end is the start.
rangeBy(node, index, endIndex) ==
    LET s == node.line + (IF index = None THEN 0 ELSE index[1])
        e == IF endIndex = None THEN s ELSE node.line + endIndex[1]
    IN  [start |-> Position(s, 1), end |-> Position(e, 2)]

\* A disabled range.
DisabledRange(s, e, r) == [start |-> s, end |-> e, rules |-> r]

RuleRestrictions == {None} \cup {Some({r}) : r \in Rules}

\* The ranges the comment scanner produces: start <= end when end is defined.
DisabledRangeValues ==
    { d \in { DisabledRange(s, e, r) :
                s \in Lines,
                e \in {None} \cup {Some(l) : l \in Lines},
                r \in RuleRestrictions } :
        d.end = None \/ d.start <= d.end[1] }

-----------------------------------------------------------------------------
(* Problems: the argument of report() *)

Problem(rule, sev, args, pos, fix) ==
    [ ruleName |-> rule, severity |-> sev, messageArgs |-> args,
      line |-> pos.line, node |-> pos.node,
      index |-> pos.index, endIndex |-> pos.endIndex,
      start |-> pos.start, end |-> pos.end, fix |-> fix ]

Where(line, node, index, endIndex, start, end) ==
    [ line |-> line, node |-> node, index |-> index, endIndex |-> endIndex,
      start |-> start, end |-> end ]

Node(l) == [line |-> l]

\* The ways a rule may tell where the problem is.
Nowhere == Where(0, None, None, None, None, None)
ByLine(l) == Where(l, None, None, None, None, None)
ByNode(l) == Where(0, Some(Node(l)), None, None, None, None)
ByIndexes(l) == Where(0, Some(Node(1)), Some(l - 1), Some(l - 1), None, None)
ByRange(l) == Where(0, None, None, None, Some(Position(l, 1)), Some(Position(l, 2)))
ByLineAndRange(l) ==
    Where(l, None, None, None, Some(Position(l, 1)), Some(Position(l, 2)))
ByNodeAndRange(l) ==
    Where(0, Some(Node(l)), None, None, Some(Position(l, 1)), Some(Position(l, 2)))
IndexesWithoutNode == Where(0, None, Some(0), Some(0), None, None)

-----------------------------------------------------------------------------
(* report(), src/lib/utils/report.mjs *)

hasRange(p) == p.end # None /\ p.end[1].column # 0 /\ p.start # None
hasIndexes(p) == p.index # None /\ p.endIndex # None
\* faulty variant: a line number taken for range data
hasRangeData_orLine(p) == hasRange(p) \/ hasIndexes(p) \/ p.line # 0
hasRangeData(p) == hasRange(p) \/ hasIndexes(p)
hasFix(p) == p.fix = "function"
hasFixData(p) == config.fix /\ hasRangeData(p)

\* const range = hasRange ? { start, end } : node.rangeBy({ index, endIndex })
\* throws a TypeError when there is no node to ask.
rangeNeedsNode(p) == hasFixData(p) /\ ~hasRange(p) /\ p.node = None

fixRange(p) ==
    IF hasRange(p)
    THEN [start |-> p.start[1], end |-> p.end[1]]
    ELSE rangeBy(p.node[1], p.index, p.endIndex)

ruleSeverityOption(p) ==
    IF p.severity.kind # "undefined" THEN p.severity ELSE ruleSeverities[p.ruleName]

defaultSeverity == IF config.defaultSeverity # "" THEN config.defaultSeverity ELSE "error"

args(p) == IF p.messageArgs = None THEN << >> ELSE p.messageArgs[1]

\* faulty variant: the function's result used as it is, falsy or not
ruleSeverity_noFallback(p) ==
    LET option == ruleSeverityOption(p)
    IN  IF option.kind = "function"
        THEN CallSeverityFunction(option.value, args(p))
        ELSE option.value

ruleSeverity(p) ==
    LET option == ruleSeverityOption(p)
    IN  IF option.kind = "function"
        THEN LET returned == CallSeverityFunction(option.value, args(p))
             IN  IF returned # "" THEN returned ELSE defaultSeverity
        ELSE option.value

\* faulty variant: quiet mode is not looked at
quietIgnored_never(p) == FALSE

\* In quiet mode, mere warnings are ignored
quietIgnored(p) == quiet /\ ruleSeverity(p) # "error"

\* line || reportRange.start?.line, 0 when neither is there
startLine(p) ==
    IF p.line # 0 THEN p.line
    ELSE IF p.node # None THEN rangeBy(p.node[1], p.index, p.endIndex).start.line
    ELSE 0

\* faulty variant: the wildcard key looked up first
reportRanges_wildcardFirst(ruleName) ==
    IF RULE_NAME_ALL \in DOMAIN disabledRanges THEN disabledRanges[RULE_NAME_ALL]
    ELSE IF ruleName \in DOMAIN disabledRanges THEN disabledRanges[ruleName]
    ELSE << >>

\* disabledRanges[ruleName] ?? disabledRanges[RULE_NAME_ALL] ?? []
reportRanges(ruleName) ==
    IF ruleName \in DOMAIN disabledRanges THEN disabledRanges[ruleName]
    ELSE IF RULE_NAME_ALL \in DOMAIN disabledRanges THEN disabledRanges[RULE_NAME_ALL]
    ELSE << >>

\* the test of the loop over the ranges
isDisabledBy(range, ruleName, line) ==
    /\ range.start <= line
    /\ (range.end = None \/ range.end[1] >= line)
    /\ (range.rules = None \/ ruleName \in range.rules[1])

\* whether the loop finds a range that disables the problem
isDisabled(p) ==
    \E i \in DOMAIN reportRanges(p.ruleName) :
        isDisabledBy(reportRanges(p.ruleName)[i], p.ruleName, startLine(p))

\* faulty variant: the loop goes on after a match, one entry for each
disabledWarningsPushed_everyMatch(p) ==
    LET ranges == reportRanges(p.ruleName)
        matches == { i \in DOMAIN ranges : isDisabledBy(ranges[i], p.ruleName, startLine(p)) }
    IN  [ i \in 1..Cardinality(matches) |-> [rule |-> p.ruleName, line |-> startLine(p)] ]

\* what the loop pushes: one entry at the first match, after which it is left
\* (by return, or by break under ignoreDisables)
disabledWarningsPushed(p) ==
    IF isDisabled(p) THEN << [rule |-> p.ruleName, line |-> startLine(p)] >> ELSE << >>

\* faulty variant: the warning is given no severity of its own and gets
\* postcss' "warning"
warningProperties_noSeverity(p) ==
    [ severity |-> "warning", rule |-> p.ruleName, line |-> startLine(p),
      node |-> p.node,
      start |-> p.start,
      index |-> IF p.start = None THEN p.index ELSE None,
      end |-> p.end,
      endIndex |-> IF p.end = None THEN p.endIndex ELSE None ]

\* The warning handed to result.warn(); line is the line the problem was
\* checked at (postcss derives the warning's place from the properties).
warningProperties(p) ==
    [ severity |-> ruleSeverity(p), rule |-> p.ruleName, line |-> startLine(p),
      node |-> p.node,
      start |-> p.start,
      index |-> IF p.start = None THEN p.index ELSE None,
      end |-> p.end,
      endIndex |-> IF p.end = None THEN p.endIndex ELSE None ]

NoError == [message |-> "", rule |-> ""]
Thrown(message, rule) == [message |-> message, rule |-> rule]

\* faulty variant: the error is noted and the pass goes on
Throw_caught(message, rule) ==
    /\ error' = Thrown(message, rule)
    /\ phase' = phase

\* A call that throws: the error goes to the top of the pass, which ends.
Throw(message, rule) ==
    /\ error' = Thrown(message, rule)
    /\ phase' = "failed"

\* {range, fixed}, as report.mjs' applyFix and addFixerData store it, and
\* {source, callback, args, unfixable}, as applyFixes reads it.
FixerData(range, fixed) ==
    [ range |-> Some(range), fixed |-> Some(fixed),
      source |-> None, callback |-> "undefined", unfixable |-> FALSE ]

\* faulty variant: the rule's list is begun anew at each push
pushFixerData_anew(data, name, entry) ==
    IF \E i \in DOMAIN data : data[i].rule = name
    THEN [ i \in DOMAIN data |->
             IF data[i].rule = name
             THEN [data[i] EXCEPT !.list = << entry >>]
             ELSE data[i] ]
    ELSE Append(data, [rule |-> name, list |-> << entry >>])

\* fixersData[name] || (fixersData[name] = []), then push
pushFixerData(data, name, entry) ==
    IF \E i \in DOMAIN data : data[i].rule = name
    THEN [ i \in DOMAIN data |->
             IF data[i].rule = name
             THEN [data[i] EXCEPT !.list = Append(@, entry)]
             ELSE data[i] ]
    ELSE Append(data, [rule |-> name, list |-> << entry >>])

\* applyFix() of report.mjs
allRanges ==
    IF RULE_NAME_ALL \in DOMAIN disabledRanges THEN disabledRanges[RULE_NAME_ALL] ELSE << >>

isInRange(line, start, end) ==
    line >= start /\ (end = None \/ end[1] = 0 \/ line <= end[1])

reportFixRanges(ruleName) ==
    IF ruleName \in DOMAIN disabledRanges THEN disabledRanges[ruleName] ELSE allRanges

reportMayFix(ruleName, range) ==
    LET ranges == reportFixRanges(ruleName)
    IN  \/ config.ignoreDisables
        \/ Len(ranges) = 0
        \/ ~ \E i \in DOMAIN ranges :
               isInRange(range.start.line, ranges[i].start, ranges[i].end)

FixOutcomes == {"returns", "throws"}

Ran(rule, line, by) == [rule |-> rule, line |-> line, by |-> by]

reportApplyFix(ruleName, range) ==
    LET mayFix == reportMayFix(ruleName, range)
    IN  /\ fixersData' = pushFixerData(fixersData, ruleName, FixerData(range, mayFix))
        /\ IF mayFix
           THEN /\ executed' = Append(executed, Ran(ruleName, range.start.line, "report"))
                /\ \E outcome \in FixOutcomes :
                      IF outcome = "throws"
                      THEN Throw("fix callback failed", ruleName)
                      ELSE UNCHANGED << error, phase >>
           ELSE UNCHANGED << executed, error, phase >>
        /\ UNCHANGED << disabledWarnings, stylelintError, stylelintWarning, warnings >>

report(p) ==
    /\ call' = [op |-> "report", arg |-> p]
    /\ reported' = Append(reported, p)
    /\ UNCHANGED << config, quiet, ruleSeverities, disabledRanges, cursor >>
    /\ IF hasFix(p) /\ ~hasRangeData(p)
       THEN /\ Throw("fix requires position data", p.ruleName)
            /\ UNCHANGED << disabledWarnings, stylelintError, stylelintWarning,
                            fixersData, warnings, executed >>
       ELSE IF rangeNeedsNode(p)
       THEN /\ Throw("TypeError", p.ruleName)
            /\ UNCHANGED << disabledWarnings, stylelintError, stylelintWarning,
                            fixersData, warnings, executed >>
       ELSE IF hasFixData(p) /\ hasFix(p)
       THEN reportApplyFix(p.ruleName, fixRange(p))
       ELSE IF quietIgnored(p)
       THEN UNCHANGED << disabledWarnings, stylelintError, stylelintWarning,
                         fixersData, warnings, executed, error, phase >>
       ELSE IF startLine(p) = 0
       THEN /\ Throw("missing line/node", p.ruleName)
            /\ UNCHANGED << disabledWarnings, stylelintError, stylelintWarning,
                            fixersData, warnings, executed >>
       ELSE /\ disabledWarnings' = disabledWarnings \o disabledWarningsPushed(p)
            /\ UNCHANGED << fixersData, executed, error, phase >>
            /\ IF isDisabled(p) /\ ~config.ignoreDisables
               THEN UNCHANGED << stylelintError, stylelintWarning, warnings >>
               ELSE /\ stylelintError' = (stylelintError \/ ruleSeverity(p) = "error")
                    /\ stylelintWarning' = (stylelintWarning \/ ruleSeverity(p) = "warning")
                    /\ warnings' = Append(warnings, warningProperties(p))

-----------------------------------------------------------------------------
(* applyFix() and addFixerData(), src/lib/utils/fix.mjs *)

\* const cb = ({ start, end }) => [start, end]
cb(range) == << range.start, range.end >>

tuples(list) == [i \in DOMAIN list |-> cb(list[i])]

\* all.map(cb).concat(disabledRanges[ruleName]?.map(cb) || [])
fixRanges(ruleName) ==
    tuples(allRanges) \o
    (IF ruleName \in DOMAIN disabledRanges THEN tuples(disabledRanges[ruleName]) ELSE << >>)

mayFixIn(ranges, line) ==
    \/ config.ignoreDisables
    \/ Len(ranges) = 0
    \/ ~ \E i \in DOMAIN ranges : isInRange(line, ranges[i][1], ranges[i][2])

addFixerData(data, name, entry) == pushFixerData(data, name, entry)

applyFix(ruleName, range) ==
    LET mayFix == mayFixIn(fixRanges(ruleName), range.start.line)
    IN  /\ call' = [op |-> "applyFix", arg |-> [ruleName |-> ruleName, range |-> range]]
        /\ UNCHANGED << config, quiet, ruleSeverities, disabledRanges, cursor, reported,
                        disabledWarnings, stylelintError, stylelintWarning, warnings >>
        /\ IF mayFix
           THEN /\ executed' = Append(executed, Ran(ruleName, range.start.line, "applyFix"))
                /\ \E outcome \in FixOutcomes :
                      IF outcome = "throws"
                      THEN /\ Throw("fix callback failed", ruleName)
                           /\ UNCHANGED fixersData
                      ELSE /\ fixersData' =
                                 addFixerData(fixersData, ruleName, FixerData(range, TRUE))
                           /\ UNCHANGED << error, phase >>
           ELSE /\ fixersData' = addFixerData(fixersData, ruleName, FixerData(range, FALSE))
                /\ UNCHANGED << executed, error, phase >>

-----------------------------------------------------------------------------
(* The fix registry: register(entry) of the specification, section 4.5 *)

FixEntry(source, unfixable) ==
    [ range |-> None, fixed |-> None,
      source |-> Some(source), callback |-> "function", unfixable |-> unfixable ]

register(ruleName, source, unfixable) ==
    /\ call' = [op |-> "register", arg |-> [ruleName |-> ruleName, range |-> source]]
    /\ fixersData' = pushFixerData(fixersData, ruleName, FixEntry(source, unfixable))
    /\ UNCHANGED << config, quiet, ruleSeverities, disabledRanges, cursor, reported,
                    disabledWarnings, stylelintError, stylelintWarning, warnings,
                    executed, error, phase >>

-----------------------------------------------------------------------------
(* applyFixes() and offsetDisabledRanges(), src/unnamed/part_000 *)

\* faulty variant: the end of a range is never moved
offsetRange_startOnly(range, endLine, diff) ==
    [ range EXCEPT
        !.start = IF range.start > endLine THEN range.start + diff ELSE range.start ]

offsetRange(range, endLine, diff) ==
    [ range EXCEPT
        !.start = IF range.start > endLine THEN range.start + diff ELSE range.start,
        !.end = IF range.end # None /\ range.end[1] # 0 /\ range.end[1] > endLine
                THEN Some(range.end[1] + diff)
                ELSE range.end ]

offsetDisabledRanges(ranges, endLine, diff) ==
    [ key \in DOMAIN ranges |->
        [ i \in DOMAIN ranges[key] |-> offsetRange(ranges[key][i], endLine, diff) ] ]

NoCursor == [rule |-> 0, entry |-> 0, ranges |-> << >>]

\* The entry applyFixes is at, and the `ranges` its rule's iteration holds:
\* they are computed when the rule's iteration starts.
cursorRule == fixersData[cursor.rule].rule
cursorEntry == fixersData[cursor.rule].list[cursor.entry]
cursorRanges == IF cursor.entry = 1 THEN fixRanges(cursorRule) ELSE cursor.ranges

\* the forEach loops' next position; rule = 0 when both are over
cursorNext ==
    IF cursor.entry < Len(fixersData[cursor.rule].list)
    THEN [rule |-> cursor.rule, entry |-> cursor.entry + 1, ranges |-> cursorRanges]
    ELSE IF cursor.rule < Len(fixersData)
    THEN [rule |-> cursor.rule + 1, entry |-> 1, ranges |-> << >>]
    ELSE NoCursor

\* faulty variant: unfixable is not looked at
applyFixesMayFix_unfixableToo(entry, ranges) ==
    mayFixIn(ranges, entry.source[1].start.line)

applyFixesMayFix(entry, ranges) ==
    ~entry.unfixable /\ mayFixIn(ranges, entry.source[1].start.line)

Deltas == (0 - MaxDelta)..MaxDelta

\* newSource.end.line, diff lines from source.end.line; the text the callback
\* leaves still begins where it began, so it ends no higher than that
returnedEnd(source, diff) == source.end.line + diff

\* applyFixes is called: rules = Object.entries(fixersData)
applyFixes ==
    /\ call' = [op |-> "applyFixes", arg |-> << >>]
    /\ IF Len(fixersData) = 0
       THEN phase' = "done" /\ cursor' = NoCursor
       ELSE phase' = "fix" /\ cursor' = [rule |-> 1, entry |-> 1, ranges |-> << >>]
    /\ UNCHANGED << config, quiet, ruleSeverities, disabledRanges, reported, fixersData,
                    disabledWarnings, stylelintError, stylelintWarning, warnings,
                    executed, error >>

\* one iteration of array.forEach; what the callback did (it returned a
\* source whose end is diff lines below the old one, or it threw) is the
\* step's input and is kept in call
Processed(entry, outcome, diff) ==
    [ op |-> "applyFixesEntry",
      arg |-> [ruleName |-> cursorRule, entry |-> entry, outcome |-> outcome, diff |-> diff] ]

applyFixesEntry ==
    LET entry == cursorEntry
        ranges == cursorRanges
    IN  /\ UNCHANGED << config, quiet, ruleSeverities, reported, fixersData,
                        disabledWarnings, stylelintError, stylelintWarning, warnings >>
        /\ IF entry.source = None
           THEN \* {range, fixed}: no source to read, no callback to call
                /\ call' = Processed(entry, "TypeError", 0)
                /\ Throw("TypeError", cursorRule)
                /\ UNCHANGED << disabledRanges, executed, cursor >>
           ELSE IF applyFixesMayFix(entry, ranges)
           THEN /\ executed' =
                      Append(executed, Ran(cursorRule, entry.source[1].start.line, "applyFixes"))
                /\ \/ /\ call' = Processed(entry, "throws", 0)
                      /\ Throw("fix callback failed", cursorRule)
                      /\ UNCHANGED << disabledRanges, cursor >>
                   \/ \E diff \in Deltas :
                         /\ returnedEnd(entry.source[1], diff) >= entry.source[1].start.line
                         /\ call' = Processed(entry, "returns", diff)
                         /\ disabledRanges' =
                              IF ~config.ignoreDisables /\ diff # 0
                              THEN offsetDisabledRanges(disabledRanges,
                                                        entry.source[1].end.line, diff)
                              ELSE disabledRanges
                         /\ cursor' = cursorNext
                         /\ phase' = IF cursorNext = NoCursor THEN "done" ELSE "fix"
                         /\ UNCHANGED error
           ELSE /\ call' = Processed(entry, "skipped", 0)
                /\ cursor' = cursorNext
                /\ phase' = IF cursorNext = NoCursor THEN "done" ELSE "fix"
                /\ UNCHANGED << disabledRanges, executed, error >>

-----------------------------------------------------------------------------
(* Initial states *)

Keys == {RULE_NAME_ALL, "foo"}

RangeLists == UNION { [1..n -> DisabledRangeValues] : n \in 0..MaxRanges }

\* Every index over the keys "all" and "foo" (present or not, "bar" standing
\* for a rule without a key) that holds at most MaxRanges ranges.
RangeIndexes ==
    UNION { { f \in [K -> RangeLists] :
                \A k \in K : \A j \in K \ {k} : Len(f[k]) + Len(f[j]) <= MaxRanges }
            : K \in SUBSET Keys }

Config(fix, ignoreDisables, default) ==
    [fix |-> fix, ignoreDisables |-> ignoreDisables, defaultSeverity |-> default]

InitResult ==
    /\ disabledWarnings = << >>
    /\ stylelintError = FALSE
    /\ stylelintWarning = FALSE
    /\ fixersData = << >>
    /\ warnings = << >>
    /\ executed = << >>
    /\ phase = "report"
    /\ error = NoError
    /\ call = [op |-> "none", arg |-> << >>]
    /\ reported = << >>
    /\ cursor = NoCursor

\* One call against every range index.
InitSuppress ==
    /\ InitResult
    /\ disabledRanges \in RangeIndexes
    /\ config \in { Config(TRUE, i, "") : i \in BOOLEAN }
    /\ quiet = FALSE
    /\ ruleSeverities = [r \in Rules |-> Literal("warning")]

SuppressProblems ==
    { Problem(r, Undefined, None, ByLine(l), "undefined") : r \in Rules, l \in Lines }
    \cup { Problem(r, Undefined, None, ByIndexes(l), "function") : r \in Rules, l \in Lines }

\* the text a fix is aimed at: some lines of the document
FixRanges ==
    { [start |-> Position(lm[1], 1), end |-> Position(lm[2], 2)] :
        lm \in { x \in Lines \X Lines : x[1] <= x[2] } }

NextSuppress ==
    \/ \E p \in SuppressProblems : phase = "report" /\ call.op = "none" /\ report(p)
    \/ \E r \in Rules, range \in FixRanges :
          phase = "report" /\ call.op = "none" /\ applyFix(r, range)
    \/ \E r \in Rules, range \in FixRanges, u \in BOOLEAN :
          phase = "report" /\ call.op = "none" /\ register(r, range, u)
    \/ phase = "report" /\ call.op = "register" /\ applyFixes
    \/ phase = "fix" /\ applyFixesEntry

SpecSuppress == InitSuppress /\ [][NextSuppress]_vars

\* One call under every configuration, with every shape of problem.
CallIndexes ==
    { << >>,
      [k \in {RULE_NAME_ALL} |-> << DisabledRange(1, Some(1), None) >>],
      [k \in Keys |-> IF k = "foo" THEN << DisabledRange(1, None, None) >> ELSE << >>] }

InitCall ==
    /\ InitResult
    /\ disabledRanges \in CallIndexes
    /\ config \in { Config(f, i, d) : f \in BOOLEAN, i \in BOOLEAN,
                                      d \in {""} \cup Severities }
    /\ quiet \in BOOLEAN
    /\ ruleSeverities \in { [r \in Rules |-> IF r = "foo" THEN o ELSE Undefined] :
                              o \in SeverityOptions }

Wheres ==
    {Nowhere, IndexesWithoutNode}
    \cup UNION { {ByLine(l), ByNode(l), ByIndexes(l), ByRange(l),
                  ByLineAndRange(l), ByNodeAndRange(l)} : l \in Lines }

SeverityAndArgs ==
    { << Undefined, a >> : a \in MessageArgs }
    \cup { << Literal(v), None >> : v \in Severities }
    \cup { << Function(f), a >> : f \in SeverityFunctions, a \in MessageArgs }

\* every severity at a line, at none and through a node; every place with
\* and without a fix callback
CallProblems ==
    { Problem(r, sa[1], sa[2], w, "undefined") :
        r \in Rules, sa \in SeverityAndArgs, w \in {ByLine(1), ByNode(MaxLine), Nowhere} }
    \cup { Problem(r, v, None, w, f) :
             r \in Rules, v \in {Undefined, Literal("warning")}, w \in Wheres,
             f \in {"undefined", "function"} }

NextCall == \E p \in CallProblems : phase = "report" /\ call.op = "none" /\ report(p)

SpecCall == InitCall /\ [][NextCall]_vars

\* A session as the source has it: report() for each problem the rules
\* find, then applyFixes().
SessionIndexes ==
    { << >>,
      [k \in {RULE_NAME_ALL} |-> << DisabledRange(1, Some(1), None) >>],
      [k \in Keys |-> IF k = "foo" THEN << >> ELSE << DisabledRange(2, None, None) >>],
      [k \in Keys |-> IF k = "foo"
                      THEN << DisabledRange(2, Some(2), Some({"foo"})) >>
                      ELSE << DisabledRange(1, Some(2), None),
                              DisabledRange(2, Some(2), None) >>] }

Init ==
    /\ InitResult
    /\ disabledRanges \in SessionIndexes
    /\ config \in { Config(f, i, "") : f \in BOOLEAN, i \in BOOLEAN }
    /\ quiet \in BOOLEAN
    /\ ruleSeverities = [r \in Rules |-> IF r = "foo" THEN Literal("warning")
                                                      ELSE Literal("error")]

SessionProblems ==
    { Problem(r, Undefined, None, ByLine(l), "undefined") : r \in Rules, l \in Lines }
    \cup { Problem(r, Undefined, None, ByIndexes(l), "function") : r \in Rules, l \in Lines }
    \cup { Problem("foo", Undefined, None, Nowhere, "undefined"),
           Problem("foo", Undefined, None, ByLine(1), "function") }

Next ==
    \/ \E p \in SessionProblems : phase = "report" /\ Len(reported) < MaxReports /\ report(p)
    \/ phase = "report" /\ applyFixes
    \/ phase = "fix" /\ applyFixesEntry

Spec == Init /\ [][Next]_vars

\* The fix pass over a registry of fixes.
InitFixes ==
    /\ InitResult
    /\ disabledRanges \in SessionIndexes
    /\ config \in { Config(TRUE, i, "") : i \in BOOLEAN }
    /\ quiet = FALSE
    /\ ruleSeverities = [r \in Rules |-> Literal("error")]

registered == LET n[i \in 0..Len(fixersData)] ==
                      IF i = 0 THEN 0 ELSE n[i - 1] + Len(fixersData[i].list)
              IN  n[Len(fixersData)]

NextFixes ==
    \/ \E r \in Rules, range \in FixRanges, u \in BOOLEAN :
          phase = "report" /\ registered < MaxFixes /\ register(r, range, u)
    \/ \E r \in Rules, range \in FixRanges :
          phase = "report" /\ registered < MaxFixes /\ applyFix(r, range)
    \/ phase = "report" /\ applyFixes
    \/ phase = "fix" /\ applyFixesEntry

SpecFixes == InitFixes /\ [][NextFixes]_vars

\* The fix pass over longer fixes: the fixes of a rule without ranges of its
\* own, each over up to three lines, against a range of another rule that
\* may begin within a fix's lines and end below them.
OffsetLines == 1..(MaxLine + 2)

OffsetIndexes ==
    { [k \in {"foo"} |-> << DisabledRange(se[1], Some(se[2]), None) >>] :
        se \in { x \in OffsetLines \X OffsetLines : x[1] <= x[2] } }

OffsetFixRanges ==
    { [start |-> Position(lm[1], 1), end |-> Position(lm[2], 2)] :
        lm \in { x \in OffsetLines \X OffsetLines : x[1] <= x[2] /\ x[2] <= MaxLine + 1 } }

InitOffsets ==
    /\ InitResult
    /\ disabledRanges \in OffsetIndexes
    /\ config = Config(TRUE, FALSE, "")
    /\ quiet = FALSE
    /\ ruleSeverities = [r \in Rules |-> Literal("error")]

NextOffsets ==
    \/ \E range \in OffsetFixRanges :
          phase = "report" /\ registered < MaxFixes /\ register("bar", range, FALSE)
    \/ phase = "report" /\ applyFixes
    \/ phase = "fix" /\ applyFixesEntry

SpecOffsets == InitOffsets /\ [][NextOffsets]_vars

-----------------------------------------------------------------------------
(* What the claims speak of *)

\* The call the step makes is report(p) for this p.
Reports(p) == call'.op = "report" /\ call'.arg = p

\* report(p) gets as far as looking at the disabled ranges: it does not
\* take the fix path, is not dropped by quiet mode and throws nothing.
ReachesSuppressionCheck(p) ==
    /\ ~(p.fix = "function" /\ config.fix)
    /\ ~(p.fix = "function" /\ ~hasRangeData(p))
    /\ ~rangeNeedsNode(p)
    /\ ~(quiet /\ ruleSeverity(p) # "error")
    /\ startLine(p) # 0

\* Line l lies in the range, bounds included.
Covers(range, l) == range.start <= l /\ (range.end = None \/ l <= range.end[1])

\* Some range stored under the key covers line l and applies to the rule.
CoveredUnder(key, ruleName, l) ==
    /\ key \in DOMAIN disabledRanges
    /\ \E i \in DOMAIN disabledRanges[key] :
          /\ Covers(disabledRanges[key][i], l)
          /\ \/ disabledRanges[key][i].rules = None
             \/ ruleName \in disabledRanges[key][i].rules[1]

\* Some range stored under the wildcard key, with no rules restriction,
\* covers line l.
CoveredByWildcard(l) ==
    /\ RULE_NAME_ALL \in DOMAIN disabledRanges
    /\ \E i \in DOMAIN disabledRanges[RULE_NAME_ALL] :
          /\ Covers(disabledRanges[RULE_NAME_ALL][i], l)
          /\ disabledRanges[RULE_NAME_ALL][i].rules = None

LogEntry(p) == [rule |-> p.ruleName, line |-> startLine(p)]

\* The step emits exactly one diagnostic, for rule r, and no other.
Emits(r) ==
    /\ Len(warnings') = Len(warnings) + 1
    /\ SubSeq(warnings', 1, Len(warnings)) = warnings
    /\ warnings'[Len(warnings')].rule = r

Suppresses(p) ==
    /\ warnings' = warnings
    /\ disabledWarnings' = Append(disabledWarnings, LogEntry(p))

TheProblem == { call'.arg }

\* C1: a report that reaches the suppression check at a line inside an
\* unrestricted wildcard range emits nothing and logs one {rule, line} entry
\* (ignoreDisables false), or emits and logs it (ignoreDisables true),
\* whatever is stored under the rule's own key.
C1_WildcardRangeSuppresses ==
    [][ \A p \in TheProblem :
          Reports(p) /\ ReachesSuppressionCheck(p) /\ CoveredByWildcard(startLine(p))
          => IF config.ignoreDisables
             THEN Emits(p.ruleName)
                  /\ disabledWarnings' = Append(disabledWarnings, LogEntry(p))
             ELSE Suppresses(p) ]_vars

\* C2: a report of rule R at line L is suppressed (ignoreDisables false) when
\* L is covered by a range under R's key or by a range under the wildcard key.
C2_UnionOfRuleAndWildcardRanges ==
    [][ \A p \in TheProblem :
          /\ Reports(p) /\ ReachesSuppressionCheck(p) /\ ~config.ignoreDisables
          /\ \/ CoveredUnder(p.ruleName, p.ruleName, startLine(p))
             \/ CoveredUnder(RULE_NAME_ALL, p.ruleName, startLine(p))
          => Suppresses(p) ]_vars

\* C3, as stated: where a range under R's key covers line L and no range
\* under another key does, a report of another rule S at L is emitted and
\* logs nothing, and a report of R at L is suppressed.
C3_RuleRangeSuppressesOnlyItsRule_AsStated ==
    [][ \A p \in TheProblem : \A R \in Rules :
          /\ Reports(p) /\ ReachesSuppressionCheck(p) /\ ~config.ignoreDisables
          /\ R \in DOMAIN disabledRanges
          /\ \E i \in DOMAIN disabledRanges[R] : Covers(disabledRanges[R][i], startLine(p))
          /\ \A key \in DOMAIN disabledRanges \ {R} :
                \A i \in DOMAIN disabledRanges[key] :
                   ~Covers(disabledRanges[key][i], startLine(p))
          => IF p.ruleName = R
             THEN Suppresses(p)
             ELSE Emits(p.ruleName) /\ disabledWarnings' = disabledWarnings ]_vars

\* C3, amended: where a range under R's key that applies to R (no rules
\* restriction, or one that names R) covers line L, and no range under
\* another key covers L and applies to S, a report of S # R at L is emitted
\* and logs nothing, and a report of R at L is suppressed.
C3_RuleRangeSuppressesOnlyItsRule ==
    [][ \A p \in TheProblem : \A R \in Rules :
          /\ Reports(p) /\ ReachesSuppressionCheck(p) /\ ~config.ignoreDisables
          /\ CoveredUnder(R, R, startLine(p))
          /\ \A key \in DOMAIN disabledRanges \ {R} :
                ~CoveredUnder(key, p.ruleName, startLine(p))
          => IF p.ruleName = R
             THEN Suppresses(p)
             ELSE Emits(p.ruleName) /\ disabledWarnings' = disabledWarnings ]_vars

\* A report of "bar" was emitted, and nothing logged, at a line that an
\* unrestricted range under the key of "foo" covers.
C3_Witness ==
    /\ call.op = "report" /\ ~config.ignoreDisables /\ error = NoError
    /\ call.arg.fix = "undefined" /\ call.arg.ruleName = "bar"
    /\ DOMAIN disabledRanges = {RULE_NAME_ALL, "foo"}
    /\ \E i \in DOMAIN disabledRanges["foo"] :
          /\ Covers(disabledRanges["foo"][i], call.arg.line)
          /\ disabledRanges["foo"][i].rules = None
    /\ Len(warnings) = 1 /\ warnings[1].rule = "bar" /\ disabledWarnings = << >>

\* The problems of the session that got as far as the suppression check.
Checked == SelectSeq(reported, ReachesSuppressionCheck)

\* Some range under the rule's own key or under the wildcard key covers the
\* problem's line and applies to its rule.
CoveredSomewhere(p) ==
    \/ CoveredUnder(p.ruleName, p.ruleName, startLine(p))
    \/ CoveredUnder(RULE_NAME_ALL, p.ruleName, startLine(p))

IsDiagnosticOf(w, p) == w.rule = p.ruleName /\ w.line = startLine(p)

\* The diagnostics W and the log entries L account for the problems H, one
\* diagnostic or one log entry each and in order; only a problem that a
\* range covers is logged.
RECURSIVE AccountFor(_, _, _)
AccountFor(H, W, L) ==
    IF H = << >>
    THEN W = << >> /\ L = << >>
    ELSE \/ /\ W # << >>
            /\ IsDiagnosticOf(Head(W), Head(H))
            /\ AccountFor(Tail(H), Tail(W), L)
         \/ /\ L # << >>
            /\ Head(L) = LogEntry(Head(H))
            /\ CoveredSomewhere(Head(H))
            /\ AccountFor(Tail(H), W, Tail(L))

\* C4: after report calls that threw nothing, each problem that was neither
\* routed to the fix path nor dropped by quiet mode has produced exactly one
\* diagnostic, or (suppressed) none and exactly one log entry; no other
\* problem has produced anything; diagnostics and log entries are in report
\* order.  Under ignoreDisables each such problem has produced its
\* diagnostic.  "Suppressed" is the outcome of report's look at the ranges.
C4_OneDiagnosticPerProblemInOrder ==
    error = NoError =>
        IF config.ignoreDisables
        THEN AccountFor(Checked, warnings, << >>)
        ELSE AccountFor(Checked, warnings, disabledWarnings)

\* Two problems of one rule were reported, the first suppressed and the
\* second emitted, as in the specification's end-to-end example.
C4_Witness ==
    /\ error = NoError /\ ~config.ignoreDisables
    /\ Len(reported) = 2 /\ Len(Checked) = 2
    /\ reported[1].ruleName = reported[2].ruleName
    /\ Len(warnings) = 1 /\ IsDiagnosticOf(warnings[1], reported[2])
    /\ disabledWarnings = << LogEntry(reported[1]) >>

\* The step is applyFixes' iteration over an entry, whose callback returned.
FixReturned == call'.op = "applyFixesEntry" /\ call'.arg.outcome = "returns"

\* the end line of the fix the step is about, and the lines it added
FixEndLine == call'.arg.entry.source[1].end.line
FixDiff == call'.arg.diff

SameRanges(key) == DOMAIN disabledRanges'[key] = DOMAIN disabledRanges[key]

\* C5, as stated: after a fix ending on line E ran with line delta d # 0 and
\* ignoreDisables false, each range with start > E has start + d (and end + d
\* where its end is defined and > E) and each range with start <= E <= end
\* has neither start nor end changed.
C5_OffsetPropagation_AsStated ==
    [][ FixReturned /\ FixDiff # 0 /\ ~config.ignoreDisables
        => /\ DOMAIN disabledRanges' = DOMAIN disabledRanges
           /\ \A key \in DOMAIN disabledRanges :
                 /\ SameRanges(key)
                 /\ \A i \in DOMAIN disabledRanges[key] :
                       LET old == disabledRanges[key][i]
                           new == disabledRanges'[key][i]
                       IN  /\ old.start > FixEndLine
                              => /\ new.start = old.start + FixDiff
                                 /\ old.end # None /\ old.end[1] > FixEndLine
                                    => new.end = Some(old.end[1] + FixDiff)
                           /\ (old.start <= FixEndLine /\ old.end # None
                               /\ FixEndLine <= old.end[1])
                              => new = old ]_vars

\* C5, amended: after such a fix every range has its start increased by d
\* exactly when start > E and its end increased by d exactly when its end is
\* defined and > E; so a range with start <= E < end keeps its start and has
\* its end moved by d, and only a range with start <= E and end <= E (or no
\* end) is untouched.  Nothing else of the index changes.
C5_OffsetPropagation ==
    [][ FixReturned /\ FixDiff # 0 /\ ~config.ignoreDisables
        => /\ DOMAIN disabledRanges' = DOMAIN disabledRanges
           /\ \A key \in DOMAIN disabledRanges :
                 /\ SameRanges(key)
                 /\ \A i \in DOMAIN disabledRanges[key] :
                       LET old == disabledRanges[key][i]
                           new == disabledRanges'[key][i]
                       IN  /\ new.start = IF old.start > FixEndLine
                                          THEN old.start + FixDiff ELSE old.start
                           /\ new.end = IF old.end # None /\ old.end[1] > FixEndLine
                                        THEN Some(old.end[1] + FixDiff) ELSE old.end
                           /\ new.rules = old.rules ]_vars

\* A fix that ended on line 1 and added lines has run, and a range that
\* started on line 1 and ended below it now ends lower, its start kept.
C5_Witness ==
    /\ call.op = "applyFixesEntry" /\ call.arg.outcome = "returns"
    /\ call.arg.diff > 0 /\ ~config.ignoreDisables
    /\ call.arg.entry.source[1].end.line = 1
    /\ \E key \in DOMAIN disabledRanges : \E i \in DOMAIN disabledRanges[key] :
          /\ disabledRanges[key][i].start = 1
          /\ disabledRanges[key][i].end = Some(MaxLine + call.arg.diff)

\* The step processes a fix: applyFix() of fix.mjs is called, or applyFixes
\* is at an entry that has a callback; the callback, if it runs, returns.
ProcessesFix ==
    /\ \/ call'.op = "applyFix"
       \/ call'.op = "applyFixesEntry" /\ call'.arg.entry.source # None
    /\ error' = NoError

\* the range the fix of the step is aimed at
FixTarget ==
    IF call'.op = "applyFix" THEN call'.arg.range ELSE call'.arg.entry.source[1]

FixRuns == Len(executed') = Len(executed) + 1

\* C6: when a fix of rule R is processed whose target starts on a line inside
\* a disabled range that applies to R, under R's key or the wildcard key, and
\* ignoreDisables is false, the callback does not run; and every fix that is
\* processed appends one {range, fixed} entry to the fixer-attempt log of its
\* rule, fixed telling whether the callback ran.
C6_DisabledFixSkippedAndLogged ==
    [][ ProcessesFix
        => /\ ( /\ ~config.ignoreDisables
                /\ \/ CoveredUnder(call'.arg.ruleName, call'.arg.ruleName,
                                   FixTarget.start.line)
                   \/ CoveredUnder(RULE_NAME_ALL, call'.arg.ruleName,
                                   FixTarget.start.line) )
              => ~FixRuns
           /\ fixersData' = pushFixerData(fixersData, call'.arg.ruleName,
                                          FixerData(FixTarget, FixRuns)) ]_vars

\* report(p) gets past the fix path: it neither throws for want of range
\* data or of a node, nor hands the problem to applyFix.
PassesFixPath(p) ==
    /\ ~(p.fix = "function" /\ config.fix)
    /\ ~(p.fix = "function" /\ ~hasRangeData(p))
    /\ ~rangeNeedsNode(p)

FlagsUnchanged ==
    /\ stylelintError' = stylelintError
    /\ stylelintWarning' = stylelintWarning

\* C7: in quiet mode a report of a problem whose severity is not "error"
\* emits nothing, logs nothing and sets no flag, wherever its line lies; a
\* report of a problem of severity "error" that gets past the fix path with
\* a line is handled as it is without quiet mode: emitted, and the error
\* flag set, unless a range suppresses it.
C7_QuietDropsNonErrors ==
    [][ \A p \in TheProblem :
          Reports(p) /\ quiet
          => /\ ruleSeverity(p) # "error"
                => /\ warnings' = warnings
                   /\ disabledWarnings' = disabledWarnings
                   /\ FlagsUnchanged
             /\ ( /\ ruleSeverity(p) = "error"
                  /\ PassesFixPath(p) /\ startLine(p) # 0
                  /\ config.ignoreDisables \/ ~CoveredSomewhere(p) )
                => /\ Emits(p.ruleName)
                   /\ warnings'[Len(warnings')].severity = "error"
                   /\ stylelintError' ]_vars

\* In quiet mode a warning was reported on a line that a wildcard range
\* disables, for a rule without a key of its own: nothing was emitted and
\* nothing logged.
C7_Witness ==
    /\ call.op = "report" /\ quiet /\ error = NoError
    /\ call.arg.fix = "undefined" /\ call.arg.line = 1
    /\ call.arg.severity = Literal("warning")
    /\ DOMAIN disabledRanges = {RULE_NAME_ALL}
    /\ Covers(disabledRanges[RULE_NAME_ALL][1], 1)
    /\ warnings = << >> /\ disabledWarnings = << >>
    /\ ~stylelintError /\ ~stylelintWarning

\* config.defaultSeverity, "error" when it is unset
DefaultSeverity == IF config.defaultSeverity = "" THEN "error" ELSE config.defaultSeverity

\* report(p), whose problem no range stands against, shows the severity s:
\* the diagnostic it emits carries s; quiet mode drops it when s is not
\* "error".
ShowsSeverity(p, s) ==
    IF quiet /\ s # "error"
    THEN warnings' = warnings
    ELSE Emits(p.ruleName) /\ warnings'[Len(warnings')].severity = s

Shown(p) ==
    /\ PassesFixPath(p) /\ startLine(p) # 0
    /\ config.ignoreDisables \/ ~CoveredSomewhere(p)

\* C8: a problem that carries no severity, for a rule without an entry in
\* ruleSeverities, has the severity config.defaultSeverity ("error" when
\* unset): it is emitted with it, and not dropped by quiet mode when it is
\* "error"; and every diagnostic emitted carries "error" or "warning".
C8_DefaultSeverityWhenNoneGiven ==
    [][ \A p \in TheProblem :
          Reports(p)
          => /\ ( /\ p.severity = Undefined
                  /\ ruleSeverities[p.ruleName] = Undefined
                  /\ Shown(p) )
                => ShowsSeverity(p, DefaultSeverity)
             /\ \A i \in DOMAIN warnings' : warnings'[i].severity \in Severities ]_vars

\* the severity function in effect for the problem, if any
FunctionInEffect(p, f) ==
    \/ p.severity = Function(f)
    \/ p.severity = Undefined /\ ruleSeverities[p.ruleName] = Function(f)

MessageArgsOf(p) == IF p.messageArgs = None THEN << >> ELSE p.messageArgs[1]

\* C9: when the severity in effect (the problem's, else the rule's) is a
\* function, the problem has the severity the function returns for
\* messageArgs (no arguments when absent), or config.defaultSeverity
\* ("error" when unset) when that is falsy; a literal severity of the
\* problem is its severity, whatever is configured for the rule.
C9_SeverityFunctionAndPrecedence ==
    [][ \A p \in TheProblem :
          Reports(p) /\ Shown(p)
          => /\ \A f \in SeverityFunctions :
                   FunctionInEffect(p, f)
                   => LET returned == CallSeverityFunction(f, MessageArgsOf(p))
                      IN  ShowsSeverity(p, IF returned \in Severities
                                           THEN returned ELSE DefaultSeverity)
             /\ p.severity.kind = "literal" => ShowsSeverity(p, p.severity.value) ]_vars

\* The rule's severity function returned nothing for a problem without
\* messageArgs, and the diagnostic carries the configured default.
C9_Witness ==
    /\ call.op = "report" /\ error = NoError
    /\ call.arg.severity = Undefined /\ call.arg.messageArgs = None
    /\ ruleSeverities[call.arg.ruleName] = Function("firstArg")
    /\ config.defaultSeverity = "warning"
    /\ Len(warnings) = 1 /\ warnings[1].severity = "warning"

\* C10: a report of a problem with a fix callback and neither a start/end
\* range nor an index/endIndex pair throws the error that the fix requires
\* position data, naming the rule, under every configuration, and changes
\* nothing else: no diagnostic, no fix run, flags, logs and ranges as before.
C10_FixRequiresPositionData ==
    [][ \A p \in TheProblem :
          ( /\ Reports(p) /\ p.fix = "function"
            /\ ~(p.start # None /\ p.end # None)
            /\ ~(p.index # None /\ p.endIndex # None) )
          => /\ error' = Thrown("fix requires position data", p.ruleName)
             /\ UNCHANGED << warnings, executed, stylelintError, stylelintWarning,
                             disabledWarnings, fixersData, disabledRanges >> ]_vars

\* Such a call was made with fixes enabled, in quiet mode and under
\* ignoreDisables, for a problem that has a line: it threw.
C10_Witness ==
    /\ call.op = "report" /\ call.arg.fix = "function"
    /\ call.arg.line # 0 /\ call.arg.start = None /\ call.arg.index = None
    /\ config.fix /\ quiet /\ config.ignoreDisables
    /\ error = Thrown("fix requires position data", call.arg.ruleName)
    /\ warnings = << >> /\ executed = << >> /\ fixersData = << >>

\* C11: a report of a problem without a fix callback that gives no line, no
\* position and no node throws the error that the rule passed neither a node
\* nor a line, naming the rule, under every configuration, quiet mode with a
\* severity other than "error" included, and changes nothing else.
C11_MissingLineIsFatal ==
    [][ \A p \in TheProblem :
          ( /\ Reports(p) /\ p.fix = "undefined"
            /\ p.line = 0 /\ p.node = None /\ p.start = None /\ p.end = None )
          => /\ error' = Thrown("missing line/node", p.ruleName)
             /\ UNCHANGED << warnings, stylelintError, stylelintWarning,
                             disabledWarnings, disabledRanges >> ]_vars

\* the ranges under the key that cover line l and apply to the rule
MatchesUnder(key, ruleName, l) ==
    IF key \in DOMAIN disabledRanges
    THEN { i \in DOMAIN disabledRanges[key] :
             /\ Covers(disabledRanges[key][i], l)
             /\ \/ disabledRanges[key][i].rules = None
                \/ ruleName \in disabledRanges[key][i].rules[1] }
    ELSE {}

\* how many ranges, under the rule's key and the wildcard key, match
Matches(p) ==
    Cardinality(MatchesUnder(p.ruleName, p.ruleName, startLine(p)))
    + Cardinality(MatchesUnder(RULE_NAME_ALL, p.ruleName, startLine(p)))

\* C12: a report that reaches the suppression check on a line that k
\* applicable ranges cover appends, under ignoreDisables, k log entries, one
\* for each, and emits the diagnostic; with ignoreDisables false it appends
\* one entry, for the first match, and emits nothing (k > 0).  Stated for
\* the rules that have no key of their own: the ranges that apply to them
\* are those of the wildcard key, by the union and by the fallback alike.
C12_EveryMatchLoggedUnderIgnoreDisables ==
    [][ \A p \in TheProblem :
          Reports(p) /\ ReachesSuppressionCheck(p) /\ p.ruleName \notin DOMAIN disabledRanges
          => IF config.ignoreDisables
             THEN /\ Emits(p.ruleName)
                  /\ disabledWarnings' =
                       disabledWarnings \o [i \in 1..Matches(p) |-> LogEntry(p)]
             ELSE Matches(p) > 0 => Suppresses(p) ]_vars

\* C13: disabledRanges changes only in a step of the fix pass that runs the
\* callback of an entry that is not unfixable, whose callback returns with a
\* line delta other than 0, ignoreDisables being false.  So report calls,
\* applyFix calls, entries that are skipped, fixes that add no line and
\* every fix under ignoreDisables leave every range of every key as it was.
C13_OnlyExecutedFixesMoveRanges ==
    [][ disabledRanges' # disabledRanges
        => /\ FixReturned /\ FixRuns
           /\ ~call'.arg.entry.unfixable
           /\ FixDiff # 0
           /\ ~config.ignoreDisables ]_vars

\* Under ignoreDisables a fix has run in the fix pass and added lines, and
\* the range that starts below it is where it was.
C13_Witness ==
    /\ call.op = "applyFixesEntry" /\ call.arg.outcome = "returns"
    /\ call.arg.diff > 0 /\ config.ignoreDisables
    /\ call.arg.entry.source[1].end.line = 1
    /\ \E key \in DOMAIN disabledRanges : \E i \in DOMAIN disabledRanges[key] :
          disabledRanges[key][i].start = MaxLine

\* The step is an iteration of the fix pass over an entry that has a
\* callback and is not unfixable.
FixPassStep ==
    /\ call'.op = "applyFixesEntry"
    /\ call'.arg.entry.source # None
    /\ ~call'.arg.entry.unfixable

\* C14: in the fix pass the callback of an entry runs exactly when the
\* entry's line is in none of the ranges, of the wildcard key and of its
\* rule's key, that disabledRanges holds when the entry is processed, the
\* offsets of every fix run before it included (or ignoreDisables is set).
C14_EligibilityAgainstCurrentRanges ==
    [][ FixPassStep
        => ( FixRuns <=> mayFixIn(fixRanges(call'.arg.ruleName),
                                  call'.arg.entry.source[1].start.line) ) ]_vars

\* C15: no fix callback runs while problems are being reported: a report
\* call runs none, also when it is given a fix callback with range data and
\* fixes are enabled; callbacks run in the fix pass, after the last report.
C15_NoFixRunsWhileReporting ==
    [][ /\ call'.op = "report" => executed' = executed
        /\ executed' # executed => phase = "fix" ]_vars

\* the problem a rule would report on the line, by its line alone
ProblemAt(ruleName, l) == Problem(ruleName, Undefined, None, ByLine(l), "undefined")

\* C16: with ignoreDisables false, the fix pass leaves out the fix of rule R
\* on line L (an entry that is not unfixable) exactly when a report of R on
\* L would be suppressed, whatever the index holds: ranges with a rules
\* restriction, a key of the rule beside the wildcard key, open ends.
C16_FixEligibilityIsReportSuppression ==
    [][ FixPassStep /\ ~config.ignoreDisables
        => ( ~FixRuns <=> isDisabled(ProblemAt(call'.arg.ruleName,
                                               call'.arg.entry.source[1].start.line)) ) ]_vars

EmittedWith(s) == \E i \in DOMAIN warnings : warnings[i].severity = s

\* C17: at every moment of a session stylelintError is true exactly when a
\* diagnostic of severity "error" has been emitted, and stylelintWarning
\* exactly when one of severity "warning" has; a flag that is true stays
\* true; and a report that emits nothing (suppressed, dropped by quiet
\* mode, sent to the fix path) sets no flag.
C17_FlagsFollowDiagnostics ==
    /\ [](/\ stylelintError <=> EmittedWith("error")
          /\ stylelintWarning <=> EmittedWith("warning"))
    /\ [][ /\ stylelintError => stylelintError'
           /\ stylelintWarning => stylelintWarning'
           /\ (call'.op = "report" /\ warnings' = warnings) => FlagsUnchanged ]_vars

\* An error was emitted after a warning was suppressed: the error flag alone
\* is set.
C17_Witness ==
    /\ Len(reported) = 2 /\ error = NoError
    /\ Len(disabledWarnings) = 1 /\ disabledWarnings[1].rule = "foo"
    /\ Len(warnings) = 1 /\ warnings[1].severity = "error"
    /\ stylelintError /\ ~stylelintWarning

\* A callback has failed in the fix pass.
FixPassFailed ==
    /\ call.op = "applyFixesEntry" /\ call.arg.outcome = "throws"
    /\ error.message = "fix callback failed"

\* C18: the step in which a callback fails in the fix pass moves no range,
\* and after it no callback runs and no range moves: disabledRanges keeps
\* the offsets of the fixes that had returned before.
C18_FailingFixAbortsThePass ==
    [][ /\ (call'.op = "applyFixesEntry" /\ call'.arg.outcome = "throws")
           => disabledRanges' = disabledRanges
        /\ FixPassFailed
           => executed' = executed /\ disabledRanges' = disabledRanges ]_vars

\* The second of two fixes failed after the first had moved a range, and
\* nothing ran after it.
C18_Witness ==
    /\ FixPassFailed /\ phase = "failed"
    /\ registered = 2 /\ Len(executed) = 2
    /\ \E key \in DOMAIN disabledRanges : \E i \in DOMAIN disabledRanges[key] :
          disabledRanges[key][i].start > MaxLine

\* C19: from an index whose closed ranges have start <= end, after any fixes
\* have run, whatever their end lines and their line deltas, every range
\* that has an end has start <= end.
C19_ClosedRangesStayOrdered ==
    \A key \in DOMAIN disabledRanges : \A i \in DOMAIN disabledRanges[key] :
       disabledRanges[key][i].end # None
       => /\ disabledRanges[key][i].end[1] > 0
          /\ disabledRanges[key][i].start <= disabledRanges[key][i].end[1]

\* the list of the rule in fixersData, empty when the rule has none
ListOf(data, ruleName) ==
    IF \E i \in DOMAIN data : data[i].rule = ruleName
    THEN data[CHOOSE i \in DOMAIN data : data[i].rule = ruleName].list
    ELSE << >>

\* The problem has a fix callback and range data that resolves to a range:
\* start and end, or index and endIndex on a node.
HasFixAndRange(p) ==
    /\ p.fix = "function"
    /\ \/ p.start # None /\ p.end # None
       \/ p.index # None /\ p.endIndex # None /\ p.node # None

\* C20: with fixes enabled, a report of a problem that has a fix callback
\* and range data emits nothing, sets no flag, logs nothing, and appends one
\* entry, for the problem's range, to the list of its rule in fixersData,
\* the lists of the other rules and the entries before it being kept:
\* whatever the severity, in quiet mode or not, the fix blocked or not.
C20_FixPathOnlyAddsAnEntry ==
    [][ \A p \in TheProblem :
          Reports(p) /\ config.fix /\ HasFixAndRange(p)
          => /\ warnings' = warnings
             /\ FlagsUnchanged
             /\ disabledWarnings' = disabledWarnings
             /\ \E fixed \in BOOLEAN :
                   ListOf(fixersData', p.ruleName) =
                      Append(ListOf(fixersData, p.ruleName), FixerData(fixRange(p), fixed))
             /\ \A r \in Rules \ {p.ruleName} :
                   ListOf(fixersData', r) = ListOf(fixersData, r) ]_vars

\* In quiet mode two problems of one rule were reported with their fixes,
\* the second on a line that a range disables: two entries in order, the
\* second not fixed, and no diagnostic, flag or log entry.
C20_Witness ==
    /\ call.op = "report" /\ quiet /\ config.fix /\ error = NoError
    /\ Len(reported) = 2 /\ Len(fixersData) = 1
    /\ Len(fixersData[1].list) = 2
    /\ fixersData[1].list[1].fixed = Some(TRUE)
    /\ fixersData[1].list[2].fixed = Some(FALSE)
    /\ warnings = << >> /\ disabledWarnings = << >>
    /\ ~stylelintError /\ ~stylelintWarning


=============================================================================
